---- MODULE Spec2Model ----
(***************************************************************************)
(* Document distance (docdist1.py, docdist6.py): the angle between the     *)
(* word-frequency vectors of two text files.                               *)
(*                                                                         *)
(* Characters are their byte codes, a string is a sequence of codes, a     *)
(* word list is a sequence of strings and a frequency vector is a sequence *)
(* of <<word, count>> pairs.  Python's arbitrary-precision integers are    *)
(* sequences of limbs and its floats are IEEE-754 doubles, a 53-bit        *)
(* mantissa times a power of two, rounded to nearest-even by every         *)
(* operation.                                                              *)
(***************************************************************************)
EXTENDS Integers, Sequences, FiniteSets, TLC

(***************************************************************************)
(* Python long: little-endian limbs in base 2^15, no leading zero limb.    *)
(***************************************************************************)
LimbBits == 15

RECURSIVE Pow2(_)
Pow2(n) == IF n = 0 THEN 1 ELSE 2 * Pow2(n - 1)

Base == Pow2(LimbBits)

RECURSIVE BigFromInt(_)
BigFromInt(n) == IF n = 0 THEN << >> ELSE <<n % Base>> \o BigFromInt(n \div Base)

RECURSIVE BigNorm(_)
BigNorm(x) ==
    IF x = << >> THEN << >>
    ELSE IF x[Len(x)] = 0 THEN BigNorm(SubSeq(x, 1, Len(x) - 1))
    ELSE x

RECURSIVE BigAddC(_, _, _)
BigAddC(x, y, c) ==
    IF x = << >> /\ y = << >> THEN (IF c = 0 THEN << >> ELSE <<c>>)
    ELSE LET a == IF x = << >> THEN 0 ELSE Head(x)
             b == IF y = << >> THEN 0 ELSE Head(y)
             s == a + b + c
         IN  <<s % Base>> \o BigAddC(IF x = << >> THEN x ELSE Tail(x),
                                     IF y = << >> THEN y ELSE Tail(y),
                                     s \div Base)

BigAdd(x, y) == BigAddC(x, y, 0)

\* x - y for x >= y
RECURSIVE BigSubB(_, _, _)
BigSubB(x, y, b) ==
    IF x = << >> THEN << >>
    ELSE LET s == Head(x) - (IF y = << >> THEN 0 ELSE Head(y)) - b
         IN  <<IF s < 0 THEN s + Base ELSE s>>
             \o BigSubB(Tail(x), IF y = << >> THEN y ELSE Tail(y),
                        IF s < 0 THEN 1 ELSE 0)

BigSub(x, y) == BigNorm(BigSubB(x, y, 0))

\* -1, 0, 1 as x < y, x = y, x > y
RECURSIVE BigCmpFrom(_, _, _)
BigCmpFrom(x, y, i) ==
    IF i = 0 THEN 0
    ELSE IF x[i] < y[i] THEN -1
    ELSE IF x[i] > y[i] THEN 1
    ELSE BigCmpFrom(x, y, i - 1)

BigCmp(x, y) ==
    IF Len(x) < Len(y) THEN -1
    ELSE IF Len(x) > Len(y) THEN 1
    ELSE BigCmpFrom(x, y, Len(x))

RECURSIVE BigMulSmallC(_, _, _)
BigMulSmallC(x, s, c) ==
    IF x = << >> THEN (IF c = 0 THEN << >> ELSE <<c>>)
    ELSE LET p == Head(x) * s + c
         IN  <<p % Base>> \o BigMulSmallC(Tail(x), s, p \div Base)

BigMulSmall(x, s) == IF s = 0 THEN << >> ELSE BigMulSmallC(x, s, 0)

RECURSIVE BigMul(_, _)
BigMul(x, y) ==
    IF x = << >> \/ y = << >> THEN << >>
    ELSE BigAdd(BigMulSmall(x, Head(y)),
                LET r == BigMul(x, Tail(y)) IN IF r = << >> THEN r ELSE <<0>> \o r)

RECURSIVE IntBitLen(_)
IntBitLen(n) == IF n = 0 THEN 0 ELSE 1 + IntBitLen(n \div 2)

BigBitLen(x) ==
    IF x = << >> THEN 0 ELSE LimbBits * (Len(x) - 1) + IntBitLen(x[Len(x)])

\* bit i (0 = least significant) of x
BigBit(x, i) ==
    LET k == (i \div LimbBits) + 1
    IN  IF k > Len(x) THEN 0 ELSE (x[k] \div Pow2(i % LimbBits)) % 2

Zeros(n) == [i \in 1..n |-> 0]

\* x * 2^s
BigShl(x, s) ==
    IF x = << >> THEN << >>
    ELSE Zeros(s \div LimbBits) \o BigMulSmall(x, Pow2(s % LimbBits))

RECURSIVE BigDivSmallFrom(_, _, _, _)
BigDivSmallFrom(x, d, i, r) ==
    IF i = 0 THEN << >>
    ELSE LET cur == r * Base + x[i]
         IN  BigDivSmallFrom(x, d, i - 1, cur % d) \o <<cur \div d>>

\* floor(x / 2^s)
BigShr(x, s) ==
    LET q == s \div LimbBits
        y == IF q >= Len(x) THEN << >> ELSE SubSeq(x, q + 1, Len(x))
    IN  BigNorm(BigDivSmallFrom(y, Pow2(s % LimbBits), Len(y), 0))

\* the quotient digit floor(cur / d) for cur < d * Base and a divisor d whose
\* top limb is at least Base / 2: the estimate from the top limbs of cur is
\* at most 2 too large
RECURSIVE BigQuotFix(_, _, _)
BigQuotFix(cur, d, q) ==
    IF BigCmp(BigMulSmall(d, q), cur) > 0 THEN BigQuotFix(cur, d, q - 1) ELSE q

BigQuotDigit(cur, d) ==
    LET k   == Len(d)
        hi  == IF Len(cur) > k THEN cur[k + 1] ELSE 0
        mid == IF Len(cur) >= k THEN cur[k] ELSE 0
        est == (hi * Base + mid) \div d[k]
    IN  BigQuotFix(cur, d, IF est > Base - 1 THEN Base - 1 ELSE est)

\* schoolbook long division over the limbs of n from limb i down, r the
\* running remainder: <<quotient, remainder>>
RECURSIVE BigDivModFrom(_, _, _, _)
BigDivModFrom(n, d, i, r) ==
    IF i = 0 THEN <<<< >>, r>>
    ELSE LET cur  == BigNorm(<<n[i]>> \o r)
             q    == BigQuotDigit(cur, d)
             rest == BigDivModFrom(n, d, i - 1, BigSub(cur, BigMulSmall(d, q)))
         IN  <<rest[1] \o <<q>>, rest[2]>>

\* <<floor(n / d), n mod d>> for d # 0: n and d are scaled by 2^s to bring
\* the top limb of d to Base / 2
BigDivMod(n, d) ==
    LET s  == LimbBits - IntBitLen(d[Len(d)])
        n2 == BigShl(n, s)
        qr == BigDivModFrom(n2, BigShl(d, s), Len(n2), << >>)
    IN  <<BigNorm(qr[1]), BigShr(qr[2], s)>>

\* floor(sqrt(x)) by Newton's iteration from r >= sqrt(x)
RECURSIVE BigISqrtFrom(_, _)
BigISqrtFrom(x, r) ==
    LET r2 == BigShr(BigAdd(r, BigDivMod(x, r)[1]), 1)
    IN  IF BigCmp(r2, r) < 0 THEN BigISqrtFrom(x, r2) ELSE r

BigISqrt(x) ==
    IF x = << >> THEN << >> ELSE BigISqrtFrom(x, BigShl(<<1>>, (BigBitLen(x) + 1) \div 2))

(***************************************************************************)
(* Python float: [m, e] is m * 2^e with m a 53-bit mantissa, or zero.      *)
(* Exponents stay far inside the double range for the values of the model. *)
(***************************************************************************)
MantBits == 53

FloatZero == [m |-> << >>, e |-> 0]

\* round-to-nearest-even of (m + f) * 2^e, 0 <= f < 1, sticky = (f # 0);
\* a sticky m carries more than MantBits + 1 bits
FloatRound(m, e, sticky) ==
    LET n == BigBitLen(m)
    IN  IF m = << >> THEN FloatZero
        ELSE IF n <= MantBits THEN [m |-> BigShl(m, MantBits - n), e |-> e - (MantBits - n)]
        ELSE LET sh   == n - MantBits
                 q    == BigShr(m, sh)
                 rem  == BigSub(m, BigShl(q, sh))
                 half == BigCmp(rem, BigShl(<<1>>, sh - 1))
                 up   == half > 0 \/ (half = 0 /\ (sticky \/ BigBit(q, 0) = 1))
                 q1   == IF up THEN BigAdd(q, <<1>>) ELSE q
             IN  IF BigBitLen(q1) > MantBits
                 THEN [m |-> BigShr(q1, 1), e |-> e + sh + 1]
                 ELSE [m |-> q1, e |-> e + sh]

FloatFromBig(x) == FloatRound(x, 0, FALSE)

FloatAdd(f, g) ==
    IF f.m = << >> THEN g
    ELSE IF g.m = << >> THEN f
    ELSE LET e == IF f.e < g.e THEN f.e ELSE g.e
         IN  FloatRound(BigAdd(BigShl(f.m, f.e - e), BigShl(g.m, g.e - e)), e, FALSE)

FloatMul(f, g) == FloatRound(BigMul(f.m, g.m), f.e + g.e, FALSE)

FloatSqrt(f) ==
    IF f.m = << >> THEN FloatZero
    ELSE LET s == IF f.e % 2 = 0 THEN MantBits + 5 ELSE MantBits + 4
             x == BigShl(f.m, s)
             r == BigISqrt(x)
         IN  FloatRound(r, (f.e - s) \div 2, BigMul(r, r) # x)

\* f / g for g # 0
FloatDiv(f, g) ==
    IF f.m = << >> THEN FloatZero
    ELSE LET qr == BigDivMod(BigShl(f.m, MantBits + 3), g.m)
         IN  FloatRound(qr[1], f.e - g.e - (MantBits + 3), qr[2] # << >>)

\* f < g for f, g >= 0
FloatLess(f, g) ==
    IF g.m = << >> THEN FALSE
    ELSE IF f.m = << >> THEN TRUE
    ELSE f.e < g.e \/ (f.e = g.e /\ BigCmp(f.m, g.m) < 0)

FloatOne == FloatFromBig(<<1>>)

(***************************************************************************)
(* Characters and strings.                                                 *)
(***************************************************************************)
uppercase   == 65..90
lowercase   == 97..122
digits      == 48..57
punctuation == (33..47) \cup (58..64) \cup (91..96) \cup (123..126)
whitespace  == {9, 10, 11, 12, 13, 32}

isalnum(c) == c \in uppercase \/ c \in lowercase \/ c \in digits

\* string.lower(word)
lower(word) ==
    [k \in 1..Len(word) |-> IF word[k] \in uppercase THEN word[k] + 32 ELSE word[k]]

\* u < v on strings: byte-wise lexicographic, a proper prefix is smaller
RECURSIVE StrLess(_, _)
StrLess(u, v) ==
    IF v = << >> THEN FALSE
    ELSE IF u = << >> THEN TRUE
    ELSE IF Head(u) # Head(v) THEN Head(u) < Head(v)
    ELSE StrLess(Tail(u), Tail(v))

\* p < q on (word, frequency) pairs: the word decides, then the frequency
PairLess(p, q) == StrLess(p[1], q[1]) \/ (p[1] = q[1] /\ p[2] < q[2])

(***************************************************************************)
(* Operation 2: split the text lines into words.                           *)
(***************************************************************************)
\* docdist6: punctuation to blank, upper case to lower case, the rest as is
translation_table(c) ==
    IF c \in punctuation THEN 32
    ELSE IF c \in uppercase THEN c + 32
    ELSE c

translate(line) == [k \in 1..Len(line) |-> translation_table(line[k])]

\* line.split(): the maximal runs of non-whitespace characters; cur is the
\* run being read from position k on
RECURSIVE split_from(_, _, _, _)
split_from(line, k, cur, words) ==
    IF k > Len(line) THEN (IF cur = << >> THEN words ELSE Append(words, cur))
    ELSE IF line[k] \in whitespace
         THEN split_from(line, k + 1, << >>,
                         IF cur = << >> THEN words ELSE Append(words, cur))
         ELSE split_from(line, k + 1, Append(cur, line[k]), words)

split(line) == split_from(line, 1, << >>, << >>)

get_words_from_string6(line) == split(translate(line))

\* docdist1: the loop over the characters c = line[k] and the flush after it
RECURSIVE get_words_loop1(_, _, _, _)
get_words_loop1(line, k, character_list, word_list) ==
    IF k > Len(line)
    THEN IF Len(character_list) > 0
         THEN Append(word_list, lower(character_list))
         ELSE word_list
    ELSE IF isalnum(line[k])
         THEN get_words_loop1(line, k + 1, Append(character_list, line[k]), word_list)
         ELSE IF Len(character_list) > 0
              THEN get_words_loop1(line, k + 1, << >>,
                                   Append(word_list, lower(character_list)))
              ELSE get_words_loop1(line, k + 1, character_list, word_list)

get_words_from_string1(line) == get_words_loop1(line, 1, << >>, << >>)

get_words_from_string(v, line) ==
    IF v = 1 THEN get_words_from_string1(line) ELSE get_words_from_string6(line)

\* one turn of the loop of get_words_from_line_list: word_list + words_in_line
\* (docdist1), word_list.extend(words_in_line) (docdist6)
\* variant: the words of the line replace the list
extend_assigns(word_list, words_in_line) == words_in_line

extend(word_list, words_in_line) == word_list \o words_in_line

(***************************************************************************)
(* Operation 3: count frequency of each word.                              *)
(***************************************************************************)
\* docdist1: the list L of [word, count] entries, in order of first occurrence
\* variant: no break after a match, so the for's else appends as well
RECURSIVE count_entry_no_break(_, _, _)
count_entry_no_break(L, new_word, k) ==
    IF k > Len(L) THEN Append(L, <<new_word, 1>>)
    ELSE IF new_word = L[k][1]
         THEN count_entry_no_break([L EXCEPT ![k] = <<L[k][1], L[k][2] + 1>>], new_word, k + 1)
         ELSE count_entry_no_break(L, new_word, k + 1)

RECURSIVE count_entry(_, _, _)
count_entry(L, new_word, k) ==
    IF k > Len(L) THEN Append(L, <<new_word, 1>>)
    ELSE IF new_word = L[k][1] THEN [L EXCEPT ![k] = <<L[k][1], L[k][2] + 1>>]
    ELSE count_entry(L, new_word, k + 1)

RECURSIVE count_loop1(_, _, _)
count_loop1(word_list, k, L) ==
    IF k > Len(word_list) THEN L
    ELSE count_loop1(word_list, k + 1, count_entry(L, word_list[k], 1))

count_frequency1(word_list) == count_loop1(word_list, 1, << >>)

\* docdist6: the dictionary D after the loop
RECURSIVE count_loop6(_, _, _)
count_loop6(word_list, k, D) ==
    IF k > Len(word_list) THEN D
    ELSE LET new_word == word_list[k]
         IN  count_loop6(word_list, k + 1,
                         IF new_word \in DOMAIN D
                         THEN [D EXCEPT ![new_word] = D[new_word] + 1]
                         ELSE (new_word :> 1) @@ D)

count_dict(word_list) == count_loop6(word_list, 1, << >>)

\* D.items(): the (key, value) pairs in the dictionary's order, which the
\* program does not control: every order is possible
items(D) ==
    LET n == Cardinality(DOMAIN D)
    IN  {[k \in 1..n |-> <<f[k], D[f[k]]>>] :
            f \in {g \in [1..n -> DOMAIN D] : \A a, b \in 1..n : a # b => g[a] # g[b]}}

\* the lists count_frequency can return
count_frequency(v, word_list) ==
    IF v = 1 THEN {count_frequency1(word_list)} ELSE items(count_dict(word_list))

(***************************************************************************)
(* Operation 4: sort words into alphabetic order.                          *)
(***************************************************************************)
RECURSIVE merge_loop(_, _, _, _, _)
merge_loop(L, R, i, j, answer) ==
    IF i <= Len(L) /\ j <= Len(R)
    THEN IF PairLess(L[i], R[j])
         THEN merge_loop(L, R, i + 1, j, Append(answer, L[i]))
         ELSE merge_loop(L, R, i, j + 1, Append(answer, R[j]))
    ELSE answer \o (IF i <= Len(L) THEN SubSeq(L, i, Len(L)) ELSE << >>)
                \o (IF j <= Len(R) THEN SubSeq(R, j, Len(R)) ELSE << >>)

merge(L, R) == merge_loop(L, R, 1, 1, << >>)

\* merge_sort returns [ok |-> TRUE, val |-> the sorted list], or ok = FALSE
\* when the recursion never reaches n == 1 and the interpreter gives up
\* (RuntimeError: maximum recursion depth exceeded)
MaxRecursion == 8

RECURSIVE merge_sort_at(_, _)
merge_sort_at(A, depth) ==
    LET n   == Len(A)
        mid == n \div 2
    IN  IF depth > MaxRecursion THEN [ok |-> FALSE, val |-> << >>]
        ELSE IF n = 1 THEN [ok |-> TRUE, val |-> A]
        ELSE LET L == merge_sort_at(SubSeq(A, 1, mid), depth + 1)
             IN  IF ~L.ok THEN L
                 ELSE LET R == merge_sort_at(SubSeq(A, mid + 1, n), depth + 1)
                      IN  IF ~R.ok THEN R
                          ELSE [ok |-> TRUE, val |-> merge(L.val, R.val)]

merge_sort(A) == merge_sort_at(A, 1)

\* insertion_sort: the while loop that moves the entries above key one up,
\* i counted from 1
RECURSIVE insert_loop(_, _, _)
insert_loop(A, i, key) ==
    IF i > 0 /\ PairLess(key, A[i])
    THEN insert_loop([A EXCEPT ![i + 1] = A[i]], i - 1, key)
    ELSE [A EXCEPT ![i + 1] = key]

RECURSIVE insertion_loop(_, _)
insertion_loop(A, j) ==
    IF j > Len(A) THEN A
    ELSE insertion_loop(insert_loop(A, j - 1, A[j]), j + 1)

insertion_sort(A) == insertion_loop(A, 1)

\* the sort word_frequencies_for_file applies to freq_mapping
sort(v, A) == IF v = 1 THEN [ok |-> TRUE, val |-> insertion_sort(A)] ELSE merge_sort(A)

(***************************************************************************)
(* The distance: inner product and angle.                                  *)
(***************************************************************************)
\* the while loop of inner_product; sum is a float, the counts are integers
RECURSIVE inner_loop(_, _, _, _, _)
inner_loop(L1, L2, i, j, sum) ==
    IF i <= Len(L1) /\ j <= Len(L2)
    THEN IF L1[i][1] = L2[j][1]
         THEN LET prod == BigMul(BigFromInt(L1[i][2]), BigFromInt(L2[j][2]))
              IN  inner_loop(L1, L2, i + 1, j + 1, FloatAdd(sum, FloatFromBig(prod)))
         ELSE IF StrLess(L1[i][1], L2[j][1])
              THEN inner_loop(L1, L2, i + 1, j, sum)
              ELSE inner_loop(L1, L2, i, j + 1, sum)
    ELSE sum

\* variant: the elif compares the words the other way round
RECURSIVE inner_loop_reversed(_, _, _, _, _)
inner_loop_reversed(L1, L2, i, j, sum) ==
    IF i <= Len(L1) /\ j <= Len(L2)
    THEN IF L1[i][1] = L2[j][1]
         THEN LET prod == BigMul(BigFromInt(L1[i][2]), BigFromInt(L2[j][2]))
              IN  inner_loop_reversed(L1, L2, i + 1, j + 1, FloatAdd(sum, FloatFromBig(prod)))
         ELSE IF StrLess(L2[j][1], L1[i][1])
              THEN inner_loop_reversed(L1, L2, i + 1, j, sum)
              ELSE inner_loop_reversed(L1, L2, i, j + 1, sum)
    ELSE sum

inner_product_reversed(L1, L2) == inner_loop_reversed(L1, L2, 1, 1, FloatZero)

inner_product(L1, L2) == inner_loop(L1, L2, 1, 1, FloatZero)

\* what vector_angle ends in: the exception raised, or the angle math.acos
\* returns, given by its cosine (acos itself is not computed); numerator and
\* denominator are vector_angle's locals
Result(kind, cos, numerator, denominator) ==
    [kind |-> kind, cos |-> cos, numerator |-> numerator, denominator |-> denominator]

NoResult == Result("none", FloatZero, FloatZero, FloatZero)

\* math.acos(x) raises ValueError (math domain error) for x > 1
acos_domain(ratio) == IF FloatLess(FloatOne, ratio) THEN "ValueError" ELSE "angle"

\* variant: the denominator as norm(x) * norm(y), the header's formula
vector_angle_norms(L1, L2) ==
    LET numerator   == inner_product(L1, L2)
        denominator == FloatMul(FloatSqrt(inner_product(L1, L1)),
                                FloatSqrt(inner_product(L2, L2)))
    IN  IF denominator = FloatZero
        THEN Result("ZeroDivisionError", FloatZero, numerator, denominator)
        ELSE LET ratio == FloatDiv(numerator, denominator)
             IN  Result(acos_domain(ratio), ratio, numerator, denominator)

vector_angle(L1, L2) ==
    LET numerator   == inner_product(L1, L2)
        denominator == FloatSqrt(FloatMul(inner_product(L1, L1), inner_product(L2, L2)))
    IN  IF denominator = FloatZero
        THEN Result("ZeroDivisionError", FloatZero, numerator, denominator)
        ELSE LET ratio == FloatDiv(numerator, denominator)
             IN  Result(acos_domain(ratio), ratio, numerator, denominator)

(***************************************************************************)
(* The inputs the specifications draw from.                                *)
(***************************************************************************)
MaxChars       == 3    \* characters of a file (main)
MaxLineChars   == 4    \* characters of a list of lines (get_words_from_line_list)
MaxWordListLen == 4    \* tokens of a word list (count_frequency and the sort)
MaxVecLen      == 2    \* entries of a vector (inner_product, vector_angle)
MaxCount       == 1    \* the small frequencies of a vector

Versions == {1, 6}

\* a, B, blank, newline
DocAlphabet == {97, 66, 32, 10}
\* a, B, comma, newline, and the control character SOH
TokAlphabet == {97, 66, 44, 10, 1}

Texts(alphabet, n) == UNION {[1..m -> alphabet] : m \in 0..n}

\* fp.readlines(): the lines of the file, each with its newline, the last
\* one possibly without
RECURSIVE readlines_from(_, _, _, _)
readlines_from(text, k, cur, lines) ==
    IF k > Len(text) THEN (IF cur = << >> THEN lines ELSE Append(lines, cur))
    ELSE IF text[k] = 10
         THEN readlines_from(text, k + 1, << >>, Append(lines, Append(cur, 10)))
         ELSE readlines_from(text, k + 1, Append(cur, text[k]), lines)

readlines(text) == readlines_from(text, 1, << >>, << >>)

\* text cut into lines after the positions in cuts
RECURSIVE cut_from(_, _, _, _, _)
cut_from(text, cuts, k, cur, lines) ==
    IF k > Len(text) THEN (IF cur = << >> THEN lines ELSE Append(lines, cur))
    ELSE IF k \in cuts
         THEN cut_from(text, cuts, k + 1, << >>, Append(lines, Append(cur, text[k])))
         ELSE cut_from(text, cuts, k + 1, Append(cur, text[k]), lines)

LineLists ==
    {cut_from(t[1], t[2], 1, << >>, << >>) :
        t \in UNION {{<<text, cuts>> : cuts \in SUBSET (1..(Len(text) - 1))} :
                        text \in Texts(TokAlphabet, MaxLineChars)}}

\* a < aa < b
FreqWords == {<<97>>, <<97, 97>>, <<98>>}
WordLists == UNION {[1..m -> FreqWords] : m \in 0..MaxWordListLen}

\* frequencies whose products and squares pass 2^53, where floats round
BigCounts == {94906265, 94906267}
\* a < ab < b
VecWords  == {<<97>>, <<97, 98>>, <<98>>}
Vectors   ==
    UNION {[1..m -> VecWords \X ((1..MaxCount) \cup BigCounts)] : m \in 0..MaxVecLen}

\* strictly ascending by word: what word_frequencies_for_file hands to main
StrictlyAscending(L) == \A k \in 1..(Len(L) - 1) : StrLess(L[k][1], L[k + 1][1])

FrequencyVectors == {L \in Vectors : StrictlyAscending(L)}

\* the pairs vector_angle is given: two frequency vectors, or a vector that
\* is not ascending with its sorted self
VectorPairs ==
    (FrequencyVectors \X FrequencyVectors)
        \cup {<<L, insertion_sort(L)>> : L \in Vectors \ FrequencyVectors}

(***************************************************************************)
(* The program: main() of docdist<version>.py.                             *)
(***************************************************************************)
VARIABLES
    version,            \* 1: docdist1.py, 6: docdist6.py
    pc,                 \* where the program is
    line_list,          \* word_frequencies_for_file: the lines read
    next_line,          \* get_words_from_line_list: position of "for line in L"
    word_list,          \* the words found so far
    freq_mapping,       \* the (word, frequency) list
    sorted_word_lists,  \* main: sorted_word_list_1, sorted_word_list_2
    distance            \* main: the result of vector_angle, or the exception

vars == <<version, pc, line_list, next_line, word_list, freq_mapping,
          sorted_word_lists, distance>>

Init ==
    /\ version \in Versions
    /\ pc = "read"
    /\ line_list = << >>
    /\ next_line = 1
    /\ word_list = << >>
    /\ freq_mapping = << >>
    /\ sorted_word_lists = << >>
    /\ distance = NoResult

\* line_list = read_file(filename); the file holds any text
ReadFile ==
    /\ pc = "read"
    /\ \E text \in Texts(DocAlphabet, MaxChars) : line_list' = readlines(text)
    /\ next_line' = 1
    /\ word_list' = << >>
    /\ pc' = "words"
    /\ UNCHANGED <<version, freq_mapping, sorted_word_lists, distance>>

\* get_words_from_line_list: one turn of "for line in L"
GetWords ==
    /\ pc = "words"
    /\ next_line <= Len(line_list)
    /\ word_list' = extend(word_list, get_words_from_string(version, line_list[next_line]))
    /\ next_line' = next_line + 1
    /\ UNCHANGED <<version, pc, line_list, freq_mapping, sorted_word_lists, distance>>

\* get_words_from_line_list: return word_list
GetWordsReturn ==
    /\ pc = "words"
    /\ next_line > Len(line_list)
    /\ pc' = "count"
    /\ UNCHANGED <<version, line_list, next_line, word_list, freq_mapping,
                   sorted_word_lists, distance>>

\* freq_mapping = count_frequency(word_list)
CountFrequency ==
    /\ pc = "count"
    /\ freq_mapping' \in count_frequency(version, word_list)
    /\ pc' = "sort"
    /\ UNCHANGED <<version, line_list, next_line, word_list, sorted_word_lists, distance>>

\* insertion_sort(freq_mapping) or freq_mapping = merge_sort(freq_mapping);
\* an exception ends the program
Sort ==
    /\ pc = "sort"
    /\ LET r == sort(version, freq_mapping)
       IN  IF r.ok
           THEN /\ freq_mapping' = r.val
                /\ pc' = "return"
                /\ UNCHANGED distance
           ELSE /\ distance' = Result("RuntimeError", FloatZero, FloatZero, FloatZero)
                /\ pc' = "done"
                /\ UNCHANGED freq_mapping
    /\ UNCHANGED <<version, line_list, next_line, word_list, sorted_word_lists>>

\* word_frequencies_for_file: return freq_mapping to main
Return ==
    /\ pc = "return"
    /\ sorted_word_lists' = Append(sorted_word_lists, freq_mapping)
    /\ line_list' = << >>
    /\ next_line' = 1
    /\ word_list' = << >>
    /\ freq_mapping' = << >>
    /\ pc' = IF Len(sorted_word_lists) = 0 THEN "read" ELSE "angle"
    /\ UNCHANGED <<version, distance>>

\* distance = vector_angle(sorted_word_list_1, sorted_word_list_2)
VectorAngle ==
    /\ pc = "angle"
    /\ distance' = vector_angle(sorted_word_lists[1], sorted_word_lists[2])
    /\ pc' = "done"
    /\ UNCHANGED <<version, line_list, next_line, word_list, freq_mapping, sorted_word_lists>>

Next ==
    \/ ReadFile
    \/ GetWords
    \/ GetWordsReturn
    \/ CountFrequency
    \/ Sort
    \/ Return
    \/ VectorAngle

Spec == Init /\ [][Next]_vars

(***************************************************************************)
(* get_words_from_line_list on any list of lines.                          *)
(***************************************************************************)
InitTok ==
    /\ version \in Versions
    /\ pc = "words"
    /\ line_list \in LineLists
    /\ next_line = 1
    /\ word_list = << >>
    /\ freq_mapping = << >>
    /\ sorted_word_lists = << >>
    /\ distance = NoResult

NextTok ==
    \/ GetWords
    \/ GetWordsReturn

SpecTok == InitTok /\ [][NextTok]_vars

(***************************************************************************)
(* count_frequency and the sort on any word list.                          *)
(***************************************************************************)
InitFreq ==
    /\ version \in Versions
    /\ pc = "count"
    /\ line_list = << >>
    /\ next_line = 1
    /\ word_list \in WordLists
    /\ freq_mapping = << >>
    /\ sorted_word_lists = << >>
    /\ distance = NoResult

NextFreq ==
    \/ CountFrequency
    \/ Sort

SpecFreq == InitFreq /\ [][NextFreq]_vars

(***************************************************************************)
(* vector_angle (the same text in both programs) on any two vectors.       *)
(***************************************************************************)
InitVec ==
    /\ version = 6
    /\ pc = "angle"
    /\ line_list = << >>
    /\ next_line = 1
    /\ word_list = << >>
    /\ freq_mapping = << >>
    /\ sorted_word_lists \in VectorPairs
    /\ distance = NoResult

NextVec == VectorAngle

SpecVec == InitVec /\ [][NextVec]_vars

(***************************************************************************)
(* What the properties are stated with.                                    *)
(***************************************************************************)
Range(f) == {f[k] : k \in DOMAIN f}

\* the number of positions of word_list that hold w
Occurrences(wl, w) == Cardinality({k \in DOMAIN wl : wl[k] = w})

RECURSIVE SumCounts(_)
SumCounts(fm) == IF fm = << >> THEN 0 ELSE Head(fm)[2] + SumCounts(Tail(fm))

RECURSIVE Flatten(_)
Flatten(ss) == IF ss = << >> THEN << >> ELSE Head(ss) \o Flatten(Tail(ss))

\* the maximal runs of alphanumeric characters of line, lower-cased, in order
RunStarts(line) ==
    {k \in DOMAIN line : isalnum(line[k]) /\ (k = 1 \/ ~isalnum(line[k - 1]))}

RunEnd(line, k) ==
    CHOOSE e \in k..Len(line) :
        /\ \A m \in k..e : isalnum(line[m])
        /\ (e = Len(line) \/ ~isalnum(line[e + 1]))

AlnumRuns(line) ==
    LET starts == RunStarts(line)
        nth(n) == CHOOSE k \in starts : Cardinality({m \in starts : m < k}) = n - 1
    IN  [n \in 1..Cardinality(starts) |->
            lower(SubSeq(line, nth(n), RunEnd(line, nth(n))))]

\* the exact inner product of two strictly ascending vectors, as an integer
RECURSIVE ExactInnerProduct(_, _)
ExactInnerProduct(L1, L2) ==
    IF L1 = << >> THEN << >>
    ELSE LET shared == {k \in DOMAIN L2 : L2[k][1] = Head(L1)[1]}
             term   == IF shared = {} THEN << >>
                       ELSE BigMul(BigFromInt(Head(L1)[2]),
                                   BigFromInt(L2[CHOOSE k \in shared : TRUE][2]))
         IN  BigAdd(term, ExactInnerProduct(Tail(L1), L2))

\* the float f is the integer x
FloatIsBig(f, x) ==
    IF f.m = << >> THEN x = << >>
    ELSE IF f.e >= 0 THEN BigShl(f.m, f.e) = x
    ELSE BigShl(x, 0 - f.e) = f.m

\* vector_angle has been applied to L1 and L2
AngleTaken == pc = "done" /\ Len(sorted_word_lists) = 2
sorted_word_list_1 == sorted_word_lists[1]
sorted_word_list_2 == sorted_word_lists[2]

FrequencyVectorsGiven ==
    StrictlyAscending(sorted_word_list_1) /\ StrictlyAscending(sorted_word_list_2)

(***************************************************************************)
(* inner_product and vector_angle (SpecVec).                               *)
(***************************************************************************)
TwoTo53 == BigShl(<<1>>, MantBits)

\* C2, as claimed: for strictly ascending L1 and L2, inner_product(L1, L2) is
\* exactly the sum, over the words in both, of the product of the counts.
C2_InnerProductIsExactSum ==
    (AngleTaken /\ FrequencyVectorsGiven)
        => FloatIsBig(distance.numerator,
                      ExactInnerProduct(sorted_word_list_1, sorted_word_list_2))

\* C2, amended: for strictly ascending L1 and L2 whose exact inner product
\* is at most 2^53, inner_product(L1, L2) is exactly the sum, over the words
\* in both, of the product of the counts: 0 when no word is shared, the sum
\* of the squared counts when L1 = L2.
C2_InnerProductIsExactSumUpTo2To53 ==
    (/\ AngleTaken
     /\ FrequencyVectorsGiven
     /\ BigCmp(ExactInnerProduct(sorted_word_list_1, sorted_word_list_2), TwoTo53) <= 0)
        => /\ FloatIsBig(distance.numerator,
                         ExactInnerProduct(sorted_word_list_1, sorted_word_list_2))
           /\ (\A i \in DOMAIN sorted_word_list_1 : \A j \in DOMAIN sorted_word_list_2 :
                   sorted_word_list_1[i][1] # sorted_word_list_2[j][1])
                  => distance.numerator = FloatZero

\* C2's case: a shared word that follows a word only L1 has and a word only
\* L2 has, its counts a large one and a small one
C2_SharedWordAfterSkips ==
    /\ AngleTaken
    /\ FrequencyVectorsGiven
    /\ Len(sorted_word_list_1) = 2
    /\ Len(sorted_word_list_2) = 2
    /\ sorted_word_list_1[1][1] # sorted_word_list_2[1][1]
    /\ sorted_word_list_1[2][1] = sorted_word_list_2[2][1]
    /\ sorted_word_list_1[2][2] \in BigCounts
    /\ sorted_word_list_2[2][2] = MaxCount
    /\ FloatIsBig(distance.numerator,
                  BigMul(BigFromInt(sorted_word_list_1[2][2]), BigFromInt(MaxCount)))

\* C6: for a non-empty strictly ascending A, vector_angle(A, A) is 0: the
\* numerator equals the denominator and the cosine handed to acos is 1.
C6_AngleToItselfIsZero ==
    (/\ AngleTaken
     /\ sorted_word_list_1 = sorted_word_list_2
     /\ sorted_word_list_1 # << >>
     /\ StrictlyAscending(sorted_word_list_1))
        => /\ distance.kind = "angle"
           /\ distance.cos = FloatOne
           /\ distance.numerator = distance.denominator

\* C6's case: a two-word vector against itself whose inner product is past
\* 2^53, so that the floats have rounded
C6_RoundedSelfAngle ==
    /\ AngleTaken
    /\ sorted_word_list_1 = sorted_word_list_2
    /\ Len(sorted_word_list_1) = 2
    /\ StrictlyAscending(sorted_word_list_1)
    /\ ~FloatIsBig(distance.numerator,
                   ExactInnerProduct(sorted_word_list_1, sorted_word_list_2))
    /\ distance.cos = FloatOne

\* C7, as claimed: for non-empty frequency vectors the cosine handed to acos
\* is at most 1 (a larger ratio is clamped), so acos never fails.
C7_CosineClamped ==
    (/\ AngleTaken
     /\ FrequencyVectorsGiven
     /\ sorted_word_list_1 # << >>
     /\ sorted_word_list_2 # << >>)
        => /\ distance.kind = "angle"
           /\ ~FloatLess(FloatOne, distance.cos)

\* C9, as claimed: a vector that is not strictly ascending makes
\* inner_product raise InvariantViolation instead of returning a number.
C9_UnsortedRaises ==
    (AngleTaken /\ ~FrequencyVectorsGiven) => distance.kind = "InvariantViolation"

(***************************************************************************)
(* count_frequency and the sort (SpecFreq).                                *)
(***************************************************************************)
\* the sort has been applied to what count_frequency returned
SortTaken == pc \in {"return", "done"}

\* C5: count_frequency returns exactly one entry per distinct token of the
\* input and no other entry, each with the number of occurrences of its
\* token as count: counts are at least 1 and sum to the length of the input,
\* and the empty input gives the empty list.
C5_CountFrequencyExact ==
    pc = "sort"
        => /\ \A w \in Range(word_list) :
                  Cardinality({k \in DOMAIN freq_mapping : freq_mapping[k][1] = w}) = 1
           /\ \A k \in DOMAIN freq_mapping :
                  /\ freq_mapping[k][1] \in Range(word_list)
                  /\ freq_mapping[k][2] = Occurrences(word_list, freq_mapping[k][1])
                  /\ freq_mapping[k][2] >= 1
           /\ SumCounts(freq_mapping) = Len(word_list)
           /\ (word_list = << >> => freq_mapping = << >>)

\* C5's case: a token met three times and another met once
C5_RepeatedToken ==
    /\ pc = "sort"
    /\ Len(word_list) = MaxWordListLen
    /\ Len(freq_mapping) = 2
    /\ \E k \in DOMAIN freq_mapping : freq_mapping[k][2] = MaxWordListLen - 1

\* C1, as claimed: for every token sequence, count_frequency followed by the
\* sort yields a list of pairs whose words are strictly ascending.
C1_SortedStrictlyAscending ==
    SortTaken => (pc = "return" /\ StrictlyAscending(freq_mapping))

\* C10, as claimed: merge_sort returns, for every list and the empty one
\* too, a list with the elements of its input.
C10_MergeSortReturns ==
    (version = 6 /\ SortTaken)
        => /\ pc = "return"
           /\ Len(freq_mapping) = Cardinality(Range(word_list))
           /\ \A k \in DOMAIN freq_mapping :
                  /\ freq_mapping[k][1] \in Range(word_list)
                  /\ freq_mapping[k][2] = Occurrences(word_list, freq_mapping[k][1])

(***************************************************************************)
(* get_words_from_line_list (SpecTok).                                     *)
(***************************************************************************)
\* the lines get_words_from_line_list has been through
LinesDone == SubSeq(line_list, 1, next_line - 1)

\* C4, as claimed: get_words_from_string returns the maximal runs of
\* alphanumeric characters of the line, lower-cased, in order; every other
\* character ends a run and is in no token.
C4_WordsAreAlnumRuns ==
    word_list = Flatten([k \in 1..Len(LinesDone) |-> AlnumRuns(LinesDone[k])])

\* the number of words found in the first n lines
WordsIn(n) ==
    Len(Flatten([k \in 1..n |-> get_words_from_string(version, line_list[k])]))

\* C8: get_words_from_line_list returns the concatenation, in line order,
\* of get_words_from_string of each line alone; an alphanumeric run that
\* ends a line and one that starts the next line are two separate tokens.
C8_LineBounded ==
    /\ word_list = Flatten([k \in 1..Len(LinesDone) |->
                               get_words_from_string(version, LinesDone[k])])
    /\ \A k \in 1..(Len(LinesDone) - 1) :
           LET words1 == get_words_from_string(version, LinesDone[k])
               words2 == get_words_from_string(version, LinesDone[k + 1])
           IN  (/\ isalnum(LinesDone[k][Len(LinesDone[k])])
                /\ isalnum(LinesDone[k + 1][1]))
                   => /\ words1 # << >>
                      /\ words2 # << >>
                      /\ word_list[WordsIn(k)] = words1[Len(words1)]
                      /\ word_list[WordsIn(k) + 1] = words2[1]

\* C8's case: a line that ends in a letter, with no newline, and a next line
\* that starts with a letter
C8_RunsAcrossLineBreak ==
    /\ pc = "count"
    /\ Len(line_list) = 2
    /\ isalnum(line_list[1][Len(line_list[1])])
    /\ isalnum(line_list[2][1])
    /\ Len(line_list[1]) + Len(line_list[2]) = MaxLineChars
    /\ Len(word_list) = 2

(***************************************************************************)
(* main (Spec).                                                            *)
(***************************************************************************)
\* a file of main gave no token
EmptyDocument ==
    \/ \E k \in DOMAIN sorted_word_lists : sorted_word_lists[k] = << >>
    \/ Len(sorted_word_lists) < 2 /\ word_list = << >>

\* C3, as claimed: when a document has no token, the comparison ends in
\* DegenerateVectorError, raised by vector_angle.
C3_EmptyDocumentDegenerate ==
    (pc = "done" /\ EmptyDocument) => distance.kind = "DegenerateVectorError"

====
